---- MODULE Spec2Model ----
(***************************************************************************)
(* A model of the BPMN extraction pipeline of bmaniteja/bpmn:               *)
(*   - the backend agent BPMNProcessExtractionAgent (payload extraction,   *)
(*     validation, normalisation/positioning, XML serialisation, and the   *)
(*     socket protocol of processMessage / execute),                       *)
(*   - the frontend getLayoutedElements of SwimLanesViewer.tsx.            *)
(* Strings are TLA+ strings, arrays are sequences (1-based), objects are   *)
(* records.  JavaScript's undefined is the value the definition names.     *)
(***************************************************************************)
EXTENDS Integers, Sequences, FiniteSets, TLC

VARIABLES
    nreq,         \* the number of requests started so far
    now,          \* the wall clock read by new Date()
    result,       \* what convertToBPMNFormat returned or threw
    xml,          \* the document generateBPMNXML returned
    text,         \* the response text the chat engine returned
    parsed,       \* what parseAndValidateBPMNResponse returned
    pc,           \* position of the request in processMessage / execute
    req,          \* the request in flight: api, sessionId, message
    events,       \* the events emitted on the request's socket, in order
    execResult,   \* what execute() returned
    contexts,     \* BaseAgent.contexts: sessionId -> messages
    chatEngine,   \* BaseAgent.chatEngine: null or the session it was built for
    prev,         \* history: the response and output of the request before
    viewNodes,    \* getLayoutedElements: the input nodes
    dagreX,       \* getLayoutedElements: the x dagre.layout gave each flow node
    layouted,     \* getLayoutedElements: the returned nodes
    viewEdges,    \* getLayoutedElements: the input edges
    dagreGraph,   \* getLayoutedElements: the graph handed to dagre.layout
    viewPc,       \* whether the viewer has laid out its data
    handlers,     \* concurrent processMessage calls: session -> position, engine used
    engineInits,  \* how many times initializeChatEngine has assigned chatEngine
    agentContexts,   \* BaseAgent.contexts as a Map: key -> the context object it holds
    contextObjects,  \* every AgentContext object created so far, held or dropped
    calls,           \* the processMessage calls of the socket routes, in order of arrival
    sockets,         \* socket.id -> "connected" or "disconnected"
    extractionState, \* ProcessExtractor: extractionState.status
    inbox,           \* events the server emitted that the client has not handled yet
    outbox,          \* 'process:extract' requests the client emitted, not yet handled
    srvInChat,       \* server handlers of this client waiting for the chat's answer
    idleTimers,      \* pending setTimeout callbacks that set the status to idle
    connectTimer,    \* whether the one-second timer of setupSocketListeners is pending
    clientSent       \* how many requests the client has emitted

vars == <<nreq, now, result, xml, text, parsed, pc, req, events, execResult,
          contexts, chatEngine, prev, viewNodes, dagreX, layouted, viewEdges,
          dagreGraph, viewPc, handlers, engineInits, agentContexts, contextObjects,
          calls, sockets, extractionState, inbox, outbox, srvInChat, idleTimers,
          connectTimer, clientSent>>

-----------------------------------------------------------------------------
(* Bounds of the explored inputs.                                          *)

MaxParticipants == 2
MaxElements == 2
MaxFlows == 2
MaxText == 4
MaxClock == 2
MaxRequests == 2
MaxViewNodes == 3
MaxViewEdges == 1
MaxCalls == 2
MaxClientRequests == 2

-----------------------------------------------------------------------------
(* Generic helpers.                                                        *)

Max(S) == CHOOSE m \in S : \A n \in S : n <= m

Min(S) == CHOOSE m \in S : \A n \in S : m <= n

Range(s) == {s[i] : i \in DOMAIN s}

\* The subsequence of s at the indices I, in index order.
RECURSIVE SubSeqAt(_, _)
SubSeqAt(s, I) ==
    IF I = {} THEN <<>>
    ELSE LET m == Max(I) IN Append(SubSeqAt(s, I \ {m}), s[m])

\* All sequences over S of length at most n.
SeqsUpTo(S, n) == UNION {[1..k -> S] : k \in 0..n}

\* JavaScript's remainder: the sign follows the dividend (-1 % 5 is -1).
JsRem(a, b) == IF a >= 0 THEN a % b ELSE -((-a) % b)

\* Math.floor(a / b) for b > 0.
MathFloorDiv(a, b) == a \div b

-----------------------------------------------------------------------------
(* The schema: BPMNElementSchema.type and metadata.complexity.             *)

BPMNElementTypes ==
    {"bpmn:StartEvent", "bpmn:Task", "bpmn:UserTask", "bpmn:ServiceTask",
     "bpmn:ExclusiveGateway", "bpmn:ParallelGateway", "bpmn:EndEvent"}

ComplexityEnum == {"low", "medium", "high"}

Undefined == "undefined"

getElementWidth(type) ==
    CASE type \in {"bpmn:StartEvent", "bpmn:EndEvent"} -> 36
      [] type \in {"bpmn:Task", "bpmn:UserTask", "bpmn:ServiceTask"} -> 100
      [] type \in {"bpmn:ExclusiveGateway", "bpmn:ParallelGateway"} -> 50
      [] OTHER -> 100

getElementHeight(type) ==
    CASE type \in {"bpmn:StartEvent", "bpmn:EndEvent"} -> 36
      [] type \in {"bpmn:Task", "bpmn:UserTask", "bpmn:ServiceTask"} -> 80
      [] type \in {"bpmn:ExclusiveGateway", "bpmn:ParallelGateway"} -> 50
      [] OTHER -> 80

-----------------------------------------------------------------------------
(* convertToBPMNFormat: participants and lanes.                            *)

participantY0 == 80
participantHeight == 150
participantWidth == 1000
participantSpacing == 20
participantX == 50

\* Faulty variant: participantY is not reset between requests.
participantBoundsCarried(index) ==
    [x |-> participantX,
     y |-> participantY0 + (index + nreq - 1) * (participantHeight + participantSpacing),
     width |-> participantWidth,
     height |-> participantHeight]

\* Faulty variant: the spacing is taken off the step instead of added to it.
participantBoundsOverlapping(index) ==
    [x |-> participantX,
     y |-> participantY0 + index * (participantHeight - participantSpacing),
     width |-> participantWidth,
     height |-> participantHeight]

\* participantBounds of the participant at 0-based index `index`: participantY
\* starts at 80 and grows by participantHeight + participantSpacing per lane.
participantBounds(index) ==
    [x |-> participantX,
     y |-> participantY0 + index * (participantHeight + participantSpacing),
     width |-> participantWidth,
     height |-> participantHeight]

ConvertParticipants(raw) ==
    [i \in DOMAIN raw.participants |->
        [id |-> raw.participants[i].id,
         name |-> raw.participants[i].name,
         processRef |-> "process_1",
         bounds |-> participantBounds(i - 1)]]

laneId(index) == "lane_" \o ToString(index)

\* rawData.participants.findIndex(p => p.id === pid), 0-based, -1 if none.
findParticipantIndex(raw, pid) ==
    LET hits == {i \in DOMAIN raw.participants : raw.participants[i].id = pid}
    IN IF hits = {} THEN -1 ELSE Min(hits) - 1

-----------------------------------------------------------------------------
(* convertToBPMNFormat: element deduplication, participant resolution and   *)
(* positioning.                                                             *)

\* Faulty variant: the last occurrence of an id wins.
UniqueElementIdxLastWins(els) ==
    {i \in DOMAIN els : \A j \in DOMAIN els : j > i => els[j].id # els[i].id}

\* The indices the uniqueElements map keeps: the first occurrence of each id.
UniqueElementIdx(els) ==
    {i \in DOMAIN els : \A j \in 1..(i - 1) : els[j].id # els[i].id}

\* Faulty variant: an element of an unknown participant is not skipped.
HasParticipantAlways(raw, el) == raw.participants # <<>>

\* participantIndex !== -1
HasParticipant(raw, el) == findParticipantIndex(raw, el.participant) # -1

\* The input elements that reach elements.push, in order.
KeptElements(raw) ==
    LET els == raw.elements
    IN SubSeqAt(els, {i \in UniqueElementIdx(els) : HasParticipant(raw, els[i])})

\* The index (0-based) of the participant and lane a kept element is put in
\* (never -1 for a kept element: the loop has returned before).
ElementParticipantIndex(raw, el) ==
    LET idx == findParticipantIndex(raw, el.participant)
    IN IF idx = -1 THEN 0 ELSE idx

\* participantElementCount: the elements already counted for the participant
\* of the k-th kept element.
participantElementCount(raw, kept, k) ==
    Cardinality({j \in 1..(k - 1) :
        ElementParticipantIndex(raw, kept[j]) = ElementParticipantIndex(raw, kept[k])})

\* elementsInParticipant = participantElementCount - 1
elementsInParticipant(count) == count - 1

elementX(type, pb, count) ==
    IF type = "bpmn:StartEvent" THEN pb.x + 80
    ELSE IF type = "bpmn:EndEvent" THEN pb.x + pb.width - 120
    ELSE LET n == elementsInParticipant(count)
             x0 == pb.x + 200 + JsRem(n, 5) * 150
         IN IF x0 + getElementWidth(type) > pb.x + pb.width - 50
            THEN pb.x + 200
            ELSE x0

elementY(type, pb, count) ==
    IF type \in {"bpmn:StartEvent", "bpmn:EndEvent"}
    THEN pb.y + (pb.height \div 2) - 18
    ELSE LET n == elementsInParticipant(count)
             x0 == pb.x + 200 + JsRem(n, 5) * 150
         IN IF x0 + getElementWidth(type) > pb.x + pb.width - 50
            THEN pb.y + 35 + MathFloorDiv(n + 5, 5) * 80
            ELSE pb.y + 35 + MathFloorDiv(n, 5) * 80

IsGatewayType(type) == type \in {"bpmn:ExclusiveGateway", "bpmn:ParallelGateway"}

\* Faulty variant: a size the payload supplies for an element is kept.
ConvertElementKeepingSize(raw, kept, k) ==
    LET el == kept[k]
        idx == ElementParticipantIndex(raw, el)
        pb == participantBounds(idx)
        count == participantElementCount(raw, kept, k)
        given == "bounds" \in DOMAIN el
    IN [id |-> el.id,
        type |-> el.type,
        name |-> el.name,
        participant |-> el.participant,
        lane |-> laneId(idx),
        bounds |-> [x |-> elementX(el.type, pb, count),
                    y |-> elementY(el.type, pb, count),
                    width |-> IF given THEN el.bounds.width ELSE getElementWidth(el.type),
                    height |-> IF given THEN el.bounds.height ELSE getElementHeight(el.type)],
        gatewayDirection |-> IF IsGatewayType(el.type) THEN "Diverging" ELSE Undefined]

\* The BPMNElement built for the k-th kept element.
ConvertElement(raw, kept, k) ==
    LET el == kept[k]
        idx == ElementParticipantIndex(raw, el)
        pb == participantBounds(idx)
        count == participantElementCount(raw, kept, k)
    IN [id |-> el.id,
        type |-> el.type,
        name |-> el.name,
        participant |-> el.participant,
        lane |-> laneId(idx),
        bounds |-> [x |-> elementX(el.type, pb, count),
                    y |-> elementY(el.type, pb, count),
                    width |-> getElementWidth(el.type),
                    height |-> getElementHeight(el.type)],
        gatewayDirection |-> IF IsGatewayType(el.type) THEN "Diverging" ELSE Undefined]

ConvertElements(raw) ==
    LET kept == KeptElements(raw)
    IN [k \in DOMAIN kept |-> ConvertElement(raw, kept, k)]

\* lanes[index].flowNodeRefs after the element loop.
flowNodeRefs(raw, index) ==
    LET kept == KeptElements(raw)
        mine == SubSeqAt(kept, {k \in DOMAIN kept :
                                  ElementParticipantIndex(raw, kept[k]) = index})
    IN [k \in DOMAIN mine |-> mine[k].id]

ConvertLanes(raw) ==
    [i \in DOMAIN raw.participants |->
        [id |-> laneId(i - 1),
         name |-> raw.participants[i].name,
         participantRef |-> raw.participants[i].id,
         flowNodeRefs |-> flowNodeRefs(raw, i - 1),
         bounds |-> participantBounds(i - 1)]]

-----------------------------------------------------------------------------
(* convertToBPMNFormat: sequence flows.                                     *)

flowKey(flow) == flow.sourceRef \o "-" \o flow.targetRef

\* Faulty variant: every flow is kept.
UniqueFlowIdxKeepAll(flows) == DOMAIN flows

\* The indices the uniqueFlows map keeps: the first flow of each key.
UniqueFlowIdx(flows) ==
    {i \in DOMAIN flows : \A j \in 1..(i - 1) : flowKey(flows[j]) # flowKey(flows[i])}

\* Faulty variant: the End-event check is missing.
FlowPassesNoTerminalRule(elements, flow) ==
    /\ \E e \in Range(elements) : e.id = flow.sourceRef
    /\ \E e \in Range(elements) : e.id = flow.targetRef

\* sourceExists, targetExists and not isInvalidEndEventFlow, against the
\* converted elements.
FlowPasses(elements, flow) ==
    LET elementIds == {e.id : e \in Range(elements)}
        endEventIds == {e.id : e \in {d \in Range(elements) : d.type = "bpmn:EndEvent"}}
    IN /\ flow.sourceRef \in elementIds
       /\ flow.targetRef \in elementIds
       /\ flow.sourceRef \notin endEventIds

ConvertFlows(raw, elements) ==
    LET flows == raw.sequenceFlows
        kept == SubSeqAt(flows, {i \in UniqueFlowIdx(flows) : FlowPasses(elements, flows[i])})
    IN [k \in DOMAIN kept |->
          [id |-> kept[k].id,
           sourceRef |-> kept[k].sourceRef,
           targetRef |-> kept[k].targetRef,
           name |-> kept[k].name]]

-----------------------------------------------------------------------------
(* convertToBPMNFormat: the diagram and its schema validation.              *)

DiagramMetadata(raw, elements, t) ==
    [processName |-> raw.metadata.processName,
     totalElements |-> Len(elements),
     complexity |-> raw.metadata.complexity,
     createdAt |-> t,
     bpmnVersion |-> "2.0"]

BuildDiagram(raw, t) ==
    LET elements == ConvertElements(raw)
    IN [processes |-> <<[id |-> "process_1",
                         name |-> raw.metadata.processName,
                         isExecutable |-> FALSE,
                         elements |-> elements,
                         sequenceFlows |-> ConvertFlows(raw, elements)]>>,
        participants |-> ConvertParticipants(raw),
        lanes |-> ConvertLanes(raw),
        metadata |-> DiagramMetadata(raw, elements, t)]

\* Faulty variant: the element type is an open string.
SchemaAcceptsAnyType(d) ==
    /\ d.metadata.processName # Undefined
    /\ d.metadata.complexity \in ComplexityEnum

\* BPMNDiagramSchema.safeParse(bpmnData).success, for the fields the payload
\* decides: element types, and the metadata's processName and complexity.
SchemaAccepts(d) ==
    /\ \A e \in Range(d.processes[1].elements) : e.type \in BPMNElementTypes
    /\ d.metadata.processName # Undefined
    /\ d.metadata.complexity \in ComplexityEnum

\* What convertToBPMNFormat does at time t: returns the diagram, or throws
\* (rawData.metadata missing: a TypeError; the schema rejects: an Error).
convertToBPMNFormat(raw, t) ==
    IF "metadata" \in raw.missing
    THEN [ok |-> FALSE, error |-> "Cannot read properties of undefined (reading 'processName')"]
    ELSE LET d == BuildDiagram(raw, t)
         IN IF SchemaAccepts(d)
            THEN [ok |-> TRUE, data |-> d]
            ELSE [ok |-> FALSE, error |-> "BPMN schema validation failed: invalid"]

-----------------------------------------------------------------------------
(* generateBPMNXML.  The document is the sequence of its elements, each a   *)
(* record of its tag and attributes, in the order the code appends them.    *)

\* Faulty variant: the corner of the bounds instead of their centre.
getElementCorner(elementId, elements) ==
    LET hits == {i \in DOMAIN elements : elements[i].id = elementId}
    IN IF hits = {} THEN [x |-> 0, y |-> 0]
       ELSE [x |-> elements[Min(hits)].bounds.x, y |-> elements[Min(hits)].bounds.y]

getElementCenter(elementId, elements) ==
    LET hits == {i \in DOMAIN elements : elements[i].id = elementId}
    IN IF hits = {} THEN [x |-> 0, y |-> 0]
       ELSE LET b == elements[Min(hits)].bounds
            IN [x |-> b.x + b.width \div 2, y |-> b.y + b.height \div 2]

\* element.type.replace('bpmn:', '')
TagOfType(type) ==
    CASE type = "bpmn:StartEvent" -> "StartEvent"
      [] type = "bpmn:Task" -> "Task"
      [] type = "bpmn:UserTask" -> "UserTask"
      [] type = "bpmn:ServiceTask" -> "ServiceTask"
      [] type = "bpmn:ExclusiveGateway" -> "ExclusiveGateway"
      [] type = "bpmn:ParallelGateway" -> "ParallelGateway"
      [] type = "bpmn:EndEvent" -> "EndEvent"
      [] OTHER -> type

XmlParticipants(d) ==
    [i \in DOMAIN d.participants |->
        [tag |-> "bpmn:participant", id |-> d.participants[i].id,
         name |-> d.participants[i].name, processRef |-> d.participants[i].processRef]]

XmlLanes(d) ==
    [i \in DOMAIN d.lanes |->
        [tag |-> "bpmn:lane", id |-> d.lanes[i].id, name |-> d.lanes[i].name,
         flowNodeRefs |-> d.lanes[i].flowNodeRefs]]

XmlElements(process) ==
    [i \in DOMAIN process.elements |->
        [tag |-> "bpmn:" \o TagOfType(process.elements[i].type),
         id |-> process.elements[i].id, name |-> process.elements[i].name]]

\* name="..." is written only when flow.name is truthy.
XmlFlows(process) ==
    [i \in DOMAIN process.sequenceFlows |->
        LET f == process.sequenceFlows[i]
        IN IF f.name \notin {Undefined, ""}
           THEN [tag |-> "bpmn:sequenceFlow", id |-> f.id, sourceRef |-> f.sourceRef,
                 targetRef |-> f.targetRef, name |-> f.name]
           ELSE [tag |-> "bpmn:sequenceFlow", id |-> f.id, sourceRef |-> f.sourceRef,
                 targetRef |-> f.targetRef]]

XmlShape(id, horizontal, b) ==
    [tag |-> "bpmndi:BPMNShape", id |-> id \o "_di", bpmnElement |-> id,
     isHorizontal |-> horizontal, bounds |-> b]

XmlEdges(process) ==
    [i \in DOMAIN process.sequenceFlows |->
        LET f == process.sequenceFlows[i]
        IN [tag |-> "bpmndi:BPMNEdge", id |-> f.id \o "_di", bpmnElement |-> f.id,
            waypoints |-> <<getElementCenter(f.sourceRef, process.elements),
                            getElementCenter(f.targetRef, process.elements)>>]]

generateBPMNXML(d) ==
    LET process == d.processes[1]
    IN <<[tag |-> "bpmn:definitions", id |-> "Definitions_1"],
         [tag |-> "bpmn:collaboration", id |-> "Collaboration_1"]>>
       \o XmlParticipants(d)
       \o <<[tag |-> "/bpmn:collaboration"],
            [tag |-> "bpmn:process", id |-> process.id, name |-> process.name,
             isExecutable |-> process.isExecutable],
            [tag |-> "bpmn:laneSet", id |-> "LaneSet_1"]>>
       \o XmlLanes(d)
       \o <<[tag |-> "/bpmn:laneSet"]>>
       \o XmlElements(process)
       \o XmlFlows(process)
       \o <<[tag |-> "/bpmn:process"],
            [tag |-> "bpmndi:BPMNDiagram", id |-> "BPMNDiagram_1"],
            [tag |-> "bpmndi:BPMNPlane", id |-> "BPMNPlane_1",
             bpmnElement |-> "Collaboration_1"]>>
       \o [i \in DOMAIN d.participants |->
              XmlShape(d.participants[i].id, TRUE, d.participants[i].bounds)]
       \o [i \in DOMAIN d.lanes |-> XmlShape(d.lanes[i].id, TRUE, d.lanes[i].bounds)]
       \o [i \in DOMAIN process.elements |->
              XmlShape(process.elements[i].id, FALSE, process.elements[i].bounds)]
       \o XmlEdges(process)
       \o <<[tag |-> "/bpmndi:BPMNPlane"], [tag |-> "/bpmndi:BPMNDiagram"],
            [tag |-> "/bpmn:definitions"]>>

-----------------------------------------------------------------------------
(* The response text and the payload extractor.  A response is a sequence   *)
(* of segments: a lone "{", a lone "}", a run of prose "t" without braces,   *)
(* or "obj", the text of one well-formed JSON object (it starts with "{",   *)
(* ends with the "}" that balances it, and JSON.parse gives its data).       *)

HasOpen(seg) == seg.k \in {"{", "obj"}

HasClose(seg) == seg.k \in {"}", "obj"}

NoMatch == <<[k |-> "null"]>>

\* response.match(/\{[\s\S]*\}/): from the first "{" to the last "}" of the
\* text (the quantifier is greedy), null when no "}" follows a "{".
jsonMatch(response) ==
    LET opens == {i \in DOMAIN response : HasOpen(response[i])}
        closes == {i \in DOMAIN response : HasClose(response[i])}
    IN IF opens = {} \/ closes = {} \/ Min(opens) > Max(closes)
       THEN NoMatch
       ELSE SubSeq(response, Min(opens), Max(closes))

EmptyObject ==
    [participants |-> <<>>, elements |-> <<>>, sequenceFlows |-> <<>>,
     metadata |-> [processName |-> Undefined, complexity |-> Undefined],
     missing |-> {"participants", "elements", "sequenceFlows", "metadata"}]

\* JSON.parse of a matched span: one object's text parses to its data, "{}"
\* parses to the empty object, anything else throws a SyntaxError.
JSONparse(span) ==
    IF Len(span) = 1 /\ span[1].k = "obj" THEN [ok |-> TRUE, data |-> span[1].data]
    ELSE IF Len(span) = 2 /\ span[1].k = "{" /\ span[2].k = "}"
         THEN [ok |-> TRUE, data |-> EmptyObject]
         ELSE [ok |-> FALSE]

parseAndValidateBPMNResponse(response) ==
    LET m == jsonMatch(response)
    IN IF m = NoMatch
       THEN [isValid |-> FALSE, errors |-> <<"No valid JSON found in response">>]
       ELSE LET j == JSONparse(m)
            IN IF ~j.ok
               THEN [isValid |-> FALSE,
                     errors |-> <<"JSON parsing failed: Unexpected token">>]
               ELSE IF {"participants", "elements", "sequenceFlows"} \cap j.data.missing # {}
                    THEN [isValid |-> FALSE,
                          errors |-> <<"Missing required fields: participants, elements, or sequenceFlows">>]
                    ELSE [isValid |-> TRUE, data |-> j.data]

-----------------------------------------------------------------------------
(* The agent: BaseAgent state and processMessage / execute.  A request     *)
(* runs to its next await in one step: up to initializeChatEngine, up to    *)
(* chatEngine.chat, and from the chat's answer to the end of the handler.   *)

None == [none |-> TRUE]

SessionIds == {"s1", "s2"}

\* The ids socket.io gives the connected sockets.
SocketIds == {"k1", "k2"}

StatusEvent(status) == [ev |-> "agent:status", status |-> status]

\* BaseAgent.getOrCreateContext: a new context has no messages.
getOrCreateContext(ctxs, sessionId) ==
    [s \in DOMAIN ctxs \cup {sessionId} |->
        IF s \in DOMAIN ctxs THEN ctxs[s] ELSE <<>>]

\* context.messages.push(user); context.messages.push(assistant)
PushExchange(ctxs, sessionId, message, processName) ==
    [ctxs EXCEPT ![sessionId] =
        @ \o <<[role |-> "user", content |-> message],
               [role |-> "assistant",
                content |-> "Extracted BPMN process: " \o processName]>>]

Init ==
    /\ nreq = 0
    /\ now = 0
    /\ result = None
    /\ xml = <<>>
    /\ text = <<>>
    /\ parsed = None
    /\ pc = "idle"
    /\ req = None
    /\ events = <<>>
    /\ execResult = None
    /\ contexts = [s \in {} |-> <<>>]
    /\ chatEngine = "null"
    /\ prev = None
    /\ viewNodes = <<>>
    /\ dagreX = [n \in {} |-> 0]
    /\ layouted = <<>>
    /\ viewEdges = <<>>
    /\ dagreGraph = [nodes |-> {}, edges |-> {}]
    /\ viewPc = "unmounted"
    /\ handlers = [s \in SessionIds |-> [pc |-> "idle", engine |-> "null", n |-> 0, outcome |-> "none"]]
    /\ engineInits = 0
    /\ agentContexts = [s \in {} |-> 0]
    /\ contextObjects = <<>>
    /\ calls = <<>>
    /\ sockets = [k \in SocketIds |-> "connected"]
    /\ extractionState = "connecting"
    /\ inbox = <<>>
    /\ outbox = 0
    /\ srvInChat = 0
    /\ idleTimers = 0
    /\ connectTimer = TRUE
    /\ clientSent = 0

raceVars == <<handlers, engineInits>>

serverVars == <<agentContexts, contextObjects, calls, sockets>>

clientVars == <<extractionState, inbox, outbox, srvInChat, idleTimers, connectTimer,
                clientSent>>

viewVars == <<viewNodes, dagreX, layouted, viewEdges, dagreGraph, viewPc>>

\* The handler starts: processMessage emits "thinking" and takes the
\* session's context; both go on to initializeChatEngine when there is no
\* engine yet, otherwise to chatEngine.chat.
Begin(api, sessionId, keepHistory) ==
    /\ pc \in {"idle", "done"}
    /\ nreq < MaxRequests
    /\ nreq' = nreq + 1
    /\ req' = [api |-> api, sessionId |-> sessionId, message |-> "feature"]
    /\ prev' = IF keepHistory /\ pc = "done"
               THEN [text |-> text, result |-> result, xml |-> xml, at |-> now]
               ELSE prev
    /\ contexts' = IF api = "processMessage"
                   THEN getOrCreateContext(contexts, sessionId)
                   ELSE contexts
    /\ events' = IF api = "processMessage"
                 THEN <<StatusEvent("thinking")>>
                      \o (IF chatEngine = "null" THEN <<>> ELSE <<StatusEvent("extracting")>>)
                 ELSE <<>>
    /\ pc' = IF chatEngine = "null" THEN "initEngine" ELSE "chat"
    /\ text' = <<>>
    /\ parsed' = None
    /\ result' = None
    /\ xml' = <<>>
    /\ execResult' = None
    /\ UNCHANGED <<now, chatEngine>>
    /\ UNCHANGED viewVars
    /\ UNCHANGED serverVars
    /\ UNCHANGED clientVars
    /\ UNCHANGED raceVars

\* await this.initializeChatEngine(sessionId) resolves.
EngineReady ==
    /\ pc = "initEngine"
    /\ chatEngine' = req.sessionId
    /\ events' = IF req.api = "processMessage"
                 THEN Append(events, StatusEvent("extracting"))
                 ELSE events
    /\ pc' = "chat"
    /\ UNCHANGED <<nreq, now, result, xml, text, parsed, req, execResult, contexts, prev>>
    /\ UNCHANGED viewVars
    /\ UNCHANGED serverVars
    /\ UNCHANGED clientVars
    /\ UNCHANGED raceVars

\* await this.chatEngine.chat(...) rejects: the catch block.
ChatThrows ==
    /\ pc = "chat"
    /\ pc' = "done"
    /\ IF req.api = "processMessage"
       THEN /\ events' = Append(events, [ev |-> "agent:error", message |-> "chat failed"])
            /\ UNCHANGED execResult
       ELSE /\ execResult' = [response |-> "BPMN extraction failed", isValid |-> FALSE,
                              validationErrors |-> <<"Execution error: chat failed">>]
            /\ UNCHANGED events
    /\ UNCHANGED <<nreq, now, result, xml, text, parsed, req, contexts, chatEngine, prev>>
    /\ UNCHANGED viewVars
    /\ UNCHANGED serverVars
    /\ UNCHANGED clientVars
    /\ UNCHANGED raceVars

\* Faulty variant: the status "complete" is emitted whatever the validation said.
ProcessMessageTailAlwaysComplete(response) ==
    \E processData \in {parseAndValidateBPMNResponse(response)},
       ev1 \in {Append(events, StatusEvent("validating"))} :
       /\ parsed' = processData
       /\ IF processData.isValid
          THEN \E r \in {convertToBPMNFormat(processData.data, now)} :
                  /\ result' = r
                  /\ IF r.ok
                     THEN /\ xml' = generateBPMNXML(r.data)
                          /\ contexts' = PushExchange(contexts, req.sessionId, req.message,
                                                      r.data.metadata.processName)
                          /\ events' = ev1 \o <<[ev |-> "bpmn:extracted"],
                                                StatusEvent("complete")>>
                     ELSE /\ xml' = <<>>
                          /\ contexts' = contexts
                          /\ events' = Append(ev1, [ev |-> "agent:error", message |-> r.error])
          ELSE /\ result' = None
               /\ xml' = <<>>
               /\ contexts' = contexts
               /\ events' = ev1 \o <<[ev |-> "bpmn:validation-error",
                                      errors |-> processData.errors],
                                     StatusEvent("complete")>>
       /\ UNCHANGED execResult

\* processMessage from the chat's answer on.
ProcessMessageTail(response) ==
    \E processData \in {parseAndValidateBPMNResponse(response)},
       ev1 \in {Append(events, StatusEvent("validating"))} :
       /\ parsed' = processData
       /\ IF processData.isValid
          THEN \E r \in {convertToBPMNFormat(processData.data, now)} :
                  /\ result' = r
                  /\ IF r.ok
                     THEN /\ xml' = generateBPMNXML(r.data)
                          /\ contexts' = PushExchange(contexts, req.sessionId, req.message,
                                                      r.data.metadata.processName)
                          /\ events' = ev1 \o <<[ev |-> "bpmn:extracted"],
                                                StatusEvent("complete")>>
                     ELSE /\ xml' = <<>>
                          /\ contexts' = contexts
                          /\ events' = Append(ev1, [ev |-> "agent:error", message |-> r.error])
          ELSE /\ result' = None
               /\ xml' = <<>>
               /\ contexts' = contexts
               /\ events' = ev1 \o <<[ev |-> "bpmn:validation-error",
                                      errors |-> processData.errors],
                                     StatusEvent("error")>>
       /\ UNCHANGED execResult

\* execute from the chat's answer on.
ExecuteTail(response) ==
    \E parseResult \in {parseAndValidateBPMNResponse(response)} :
       /\ parsed' = parseResult
       /\ IF parseResult.isValid
          THEN \E r \in {convertToBPMNFormat(parseResult.data, now)} :
                  /\ result' = r
                  /\ IF r.ok
                     THEN /\ xml' = generateBPMNXML(r.data)
                          /\ execResult' = [response |-> "BPMN process extracted successfully",
                                            isValid |-> TRUE]
                     ELSE /\ xml' = <<>>
                          /\ execResult' = [response |-> "BPMN extraction failed",
                                            isValid |-> FALSE,
                                            validationErrors |->
                                                <<"Execution error: " \o r.error>>]
          ELSE /\ result' = None
               /\ xml' = <<>>
               /\ execResult' = [response |-> "BPMN extraction failed", isValid |-> FALSE,
                                 validationErrors |-> parseResult.errors]
       /\ UNCHANGED <<events, contexts>>

\* await this.chatEngine.chat(...) resolves with `response`.
ChatReturns(response) ==
    /\ pc = "chat"
    /\ pc' = "done"
    /\ text' = response
    /\ IF req.api = "processMessage"
       THEN ProcessMessageTail(response)
       ELSE ExecuteTail(response)
    /\ UNCHANGED <<nreq, now, req, chatEngine, prev>>
    /\ UNCHANGED viewVars
    /\ UNCHANGED serverVars
    /\ UNCHANGED clientVars
    /\ UNCHANGED raceVars

\* Time passes.
Tick ==
    /\ now < MaxClock
    /\ now' = now + 1
    /\ UNCHANGED <<nreq, result, xml, text, parsed, pc, req, events, execResult,
                   contexts, chatEngine, prev>>
    /\ UNCHANGED viewVars
    /\ UNCHANGED serverVars
    /\ UNCHANGED clientVars
    /\ UNCHANGED raceVars

-----------------------------------------------------------------------------
(* processMessage calls in flight together on the one agent instance.  Node *)
(* runs a handler up to its next await: up to initializeChatEngine when     *)
(* this.chatEngine is null, else up to chatEngine.chat; from the end of     *)
(* initializeChatEngine up to chatEngine.chat; from the chat's answer on.    *)

seqVars == <<nreq, now, result, xml, text, parsed, pc, req, events, execResult,
             contexts, prev>>

\* processMessage(sessionId, ...) is called: if (!this.chatEngine) it awaits
\* initializeChatEngine, otherwise it calls this.chatEngine.chat.
RaceBegin(s) ==
    /\ handlers[s].pc \in {"idle", "done"}
    /\ handlers[s].n < MaxRequests
    /\ handlers' = [handlers EXCEPT ![s] =
                      IF chatEngine = "null"
                      THEN [pc |-> "initEngine", engine |-> "null", n |-> @.n + 1,
                            outcome |-> "none"]
                      ELSE [pc |-> "chat", engine |-> chatEngine, n |-> @.n + 1,
                            outcome |-> "none"]]
    /\ UNCHANGED <<chatEngine, engineInits>>
    /\ UNCHANGED seqVars
    /\ UNCHANGED viewVars
    /\ UNCHANGED serverVars
    /\ UNCHANGED clientVars

\* initializeChatEngine(sessionId) assigns this.chatEngine; the handler goes
\* on to this.chatEngine.chat.
RaceEngineReady(s) ==
    /\ handlers[s].pc = "initEngine"
    /\ chatEngine' = s
    /\ engineInits' = engineInits + 1
    /\ handlers' = [handlers EXCEPT ![s].pc = "chat", ![s].engine = s]
    /\ UNCHANGED seqVars
    /\ UNCHANGED viewVars
    /\ UNCHANGED serverVars
    /\ UNCHANGED clientVars

\* The chat answers and the handler runs to its end.
RaceChatReturns(s) ==
    /\ handlers[s].pc = "chat"
    /\ handlers' = [handlers EXCEPT ![s].pc = "done", ![s].outcome = "complete"]
    /\ UNCHANGED <<chatEngine, engineInits>>
    /\ UNCHANGED seqVars
    /\ UNCHANGED viewVars
    /\ UNCHANGED serverVars
    /\ UNCHANGED clientVars

\* The chat rejects: the handler's catch emits agent:error.
RaceChatThrows(s) ==
    /\ handlers[s].pc = "chat"
    /\ handlers' = [handlers EXCEPT ![s].pc = "done", ![s].outcome = "error"]
    /\ UNCHANGED <<chatEngine, engineInits>>
    /\ UNCHANGED seqVars
    /\ UNCHANGED viewVars
    /\ UNCHANGED serverVars
    /\ UNCHANGED clientVars

-----------------------------------------------------------------------------
(* The socket routes over one agent: processMessage calls of several        *)
(* sockets in flight at once, clearContext and disconnect between them.     *)

\* Faulty variant: the exchange is stored whatever the outcome of the call.
PushesExchangeAlways(outcome) == TRUE

\* if (processData.isValid && processData.data): only then are the two
\* messages pushed; a failed validation and a throw push nothing.
PushesExchange(outcome) == outcome = "complete"

\* The two messages of call c, pushed one after the other.
ExchangeOf(c) == <<[role |-> "user", call |-> c], [role |-> "assistant", call |-> c]>>

\* this.contexts.delete(sessionId)
DeleteContext(map, key) == [x \in DOMAIN map \ {key} |-> map[x]]

\* socket.on('process:extract'): processMessage(data.sessionId, ...) takes the
\* session's context, creating it when the Map has none, and goes on to
\* initializeChatEngine or to chatEngine.chat.
SrvProcessExtract(k, s) ==
    /\ sockets[k] = "connected"
    /\ Len(calls) < MaxCalls
    /\ LET has == s \in DOMAIN agentContexts
           objs == IF has THEN contextObjects
                   ELSE Append(contextObjects, [sessionId |-> s, messages |-> <<>>])
           obj == IF has THEN agentContexts[s] ELSE Len(objs)
       IN /\ contextObjects' = objs
          /\ agentContexts' = [x \in DOMAIN agentContexts \cup {s} |->
                                  IF x = s THEN obj ELSE agentContexts[x]]
          /\ calls' = Append(calls, [socket |-> k, sessionId |-> s, context |-> obj,
                                     pc |-> IF chatEngine = "null" THEN "initEngine" ELSE "chat",
                                     outcome |-> "none"])
    /\ UNCHANGED <<sockets, chatEngine>>
    /\ UNCHANGED seqVars
    /\ UNCHANGED viewVars
    /\ UNCHANGED raceVars
    /\ UNCHANGED clientVars

\* await this.initializeChatEngine(sessionId) resolves for call c.
SrvEngineReady(c) ==
    /\ c \in DOMAIN calls
    /\ calls[c].pc = "initEngine"
    /\ chatEngine' = calls[c].sessionId
    /\ calls' = [calls EXCEPT ![c].pc = "chat"]
    /\ UNCHANGED <<agentContexts, contextObjects, sockets>>
    /\ UNCHANGED seqVars
    /\ UNCHANGED viewVars
    /\ UNCHANGED raceVars
    /\ UNCHANGED clientVars

\* The chat of call c settles and the call runs to its end: with a valid
\* payload it pushes its two messages to the context it took at its start.
SrvChatSettles(c, outcome) ==
    /\ c \in DOMAIN calls
    /\ calls[c].pc = "chat"
    /\ calls' = [calls EXCEPT ![c].pc = "done", ![c].outcome = outcome]
    /\ contextObjects' = IF PushesExchange(outcome)
                         THEN [contextObjects EXCEPT ![calls[c].context].messages =
                                  @ \o ExchangeOf(c)]
                         ELSE contextObjects
    /\ UNCHANGED <<agentContexts, sockets, chatEngine>>
    /\ UNCHANGED seqVars
    /\ UNCHANGED viewVars
    /\ UNCHANGED raceVars
    /\ UNCHANGED clientVars

\* socket.on('agent:clear-context'): processAgent.clearContext(socket.id)
SrvClearContext(k) ==
    /\ sockets[k] = "connected"
    /\ k \in DOMAIN agentContexts
    /\ agentContexts' = DeleteContext(agentContexts, k)
    /\ UNCHANGED <<contextObjects, calls, sockets, chatEngine>>
    /\ UNCHANGED seqVars
    /\ UNCHANGED viewVars
    /\ UNCHANGED raceVars
    /\ UNCHANGED clientVars

\* socket.on('disconnect'): processAgent.clearContext(socket.id)
SrvDisconnect(k) ==
    /\ sockets[k] = "connected"
    /\ sockets' = [sockets EXCEPT ![k] = "disconnected"]
    /\ agentContexts' = DeleteContext(agentContexts, k)
    /\ UNCHANGED <<contextObjects, calls, chatEngine>>
    /\ UNCHANGED seqVars
    /\ UNCHANGED viewVars
    /\ UNCHANGED raceVars
    /\ UNCHANGED clientVars

-----------------------------------------------------------------------------
(* The ProcessExtractor component and the server's answers to it.           *)

\* What processMessage emits before it awaits the chat.
EventsBeforeChat == <<StatusEvent("thinking"), StatusEvent("extracting")>>

\* What processMessage emits once the chat has settled.
EventsAfterChat(outcome) ==
    CASE outcome = "complete" ->
            <<StatusEvent("validating"), [ev |-> "process:extracted"], StatusEvent("complete")>>
      [] outcome = "invalid" ->
            <<StatusEvent("validating"), [ev |-> "process:validation-error"],
              StatusEvent("error")>>
      [] outcome = "throws" -> <<[ev |-> "agent:error"]>>

\* The setTimeout of setupSocketListeners fires: the component is idle.
ConnectTimerFires ==
    /\ connectTimer
    /\ connectTimer' = FALSE
    /\ extractionState' = "idle"
    /\ UNCHANGED <<inbox, outbox, srvInChat, idleTimers, clientSent>>
    /\ UNCHANGED <<seqVars, chatEngine>>
    /\ UNCHANGED viewVars
    /\ UNCHANGED raceVars
    /\ UNCHANGED serverVars

\* The Generate button, enabled only in status idle: emit 'process:extract'.
startExtraction ==
    /\ extractionState = "idle"
    /\ clientSent < MaxClientRequests
    /\ clientSent' = clientSent + 1
    /\ outbox' = outbox + 1
    /\ UNCHANGED <<extractionState, inbox, srvInChat, idleTimers, connectTimer>>
    /\ UNCHANGED <<seqVars, chatEngine>>
    /\ UNCHANGED viewVars
    /\ UNCHANGED raceVars
    /\ UNCHANGED serverVars

\* The request reaches the server: processMessage up to the chat.
ServerTakesRequest ==
    /\ outbox > 0
    /\ outbox' = outbox - 1
    /\ srvInChat' = srvInChat + 1
    /\ inbox' = inbox \o EventsBeforeChat
    /\ UNCHANGED <<extractionState, idleTimers, connectTimer, clientSent>>
    /\ UNCHANGED <<seqVars, chatEngine>>
    /\ UNCHANGED viewVars
    /\ UNCHANGED raceVars
    /\ UNCHANGED serverVars

\* The chat settles: processMessage from there to its end.
ServerAnswers(outcome) ==
    /\ srvInChat > 0
    /\ srvInChat' = srvInChat - 1
    /\ inbox' = inbox \o EventsAfterChat(outcome)
    /\ UNCHANGED <<extractionState, outbox, idleTimers, connectTimer, clientSent>>
    /\ UNCHANGED <<seqVars, chatEngine>>
    /\ UNCHANGED viewVars
    /\ UNCHANGED raceVars
    /\ UNCHANGED serverVars

\* The component's listeners: 'agent:status' copies the status, 'agent:error'
\* sets 'error', 'process:extracted' starts the timer that sets 'idle';
\* there is no listener for 'process:validation-error'.
ClientReceives ==
    /\ inbox # <<>>
    /\ inbox' = Tail(inbox)
    /\ extractionState' =
          CASE Head(inbox).ev = "agent:status" -> Head(inbox).status
            [] Head(inbox).ev = "agent:error" -> "error"
            [] OTHER -> extractionState
    /\ idleTimers' = IF Head(inbox).ev = "process:extracted"
                     THEN idleTimers + 1 ELSE idleTimers
    /\ UNCHANGED <<outbox, srvInChat, connectTimer, clientSent>>
    /\ UNCHANGED <<seqVars, chatEngine>>
    /\ UNCHANGED viewVars
    /\ UNCHANGED raceVars
    /\ UNCHANGED serverVars

\* The setTimeout of the 'process:extracted' listener fires.
IdleTimerFires ==
    /\ idleTimers > 0
    /\ idleTimers' = idleTimers - 1
    /\ extractionState' = "idle"
    /\ UNCHANGED <<inbox, outbox, srvInChat, connectTimer, clientSent>>
    /\ UNCHANGED <<seqVars, chatEngine>>
    /\ UNCHANGED viewVars
    /\ UNCHANGED raceVars
    /\ UNCHANGED serverVars

-----------------------------------------------------------------------------
(* The viewer: getLayoutedElements of SwimLanesViewer.tsx.  dagre.layout is *)
(* a library call; the x it gives each flow node is an input (dagreX).      *)

getNodeDimensions(type) ==
    CASE type = "processNode" -> [width |-> 90, height |-> 50]
      [] type = "startNode" -> [width |-> 50, height |-> 50]
      [] type = "endNode" -> [width |-> 50, height |-> 50]
      [] type = "decisionNode" -> [width |-> 70, height |-> 70]
      [] type = "swimLaneNode" -> [width |-> 720, height |-> 100]
      [] OTHER -> [width |-> 90, height |-> 50]

\* newNodes: every node that is not a swimLaneNode, positioned.
LayoutNewNodes(nodes, dx) ==
    LET flow == SubSeqAt(nodes, {i \in DOMAIN nodes : nodes[i].type # "swimLaneNode"})
    IN [k \in DOMAIN flow |->
          [id |-> flow[k].id, type |-> flow[k].type, parentId |-> flow[k].parentId,
           targetPosition |-> "left", sourcePosition |-> "right",
           position |-> [x |-> (dx[flow[k].id] - getNodeDimensions(flow[k].type).width \div 2) + 30,
                         y |-> getNodeDimensions(flow[k].type).height \div 2]]]

\* swimLanesWidthHeight.width after the first k of newNodes were visited.
RECURSIVE swimLanesWidth(_, _)
swimLanesWidth(newNodes, k) ==
    IF k = 0 THEN 0
    ELSE LET w == swimLanesWidth(newNodes, k - 1)
             node == newNodes[k]
         IN IF node.parentId # Undefined /\ w < node.position.x
            THEN node.position.x + 100
            ELSE w

\* Faulty variant: a lane keeps the width it came with.
LayoutLaneWidthOwn(lane, newNodes) == lane.style.width

\* The width written into a lane's style.
LayoutLaneWidth(lane, newNodes) == swimLanesWidth(newNodes, Len(newNodes))

getLayoutedElements(nodes, dx) ==
    LET newNodes == LayoutNewNodes(nodes, dx)
        lanes == SubSeqAt(nodes, {i \in DOMAIN nodes : nodes[i].type = "swimLaneNode"})
        newLanes == [k \in DOMAIN lanes |->
                       [id |-> lanes[k].id, type |-> lanes[k].type,
                        parentId |-> lanes[k].parentId,
                        style |-> [width |-> LayoutLaneWidth(lanes[k], newNodes)]]]
    IN newLanes \o newNodes

\* The graph after the setNode and setEdge calls: a node per node that is
\* not a swimLaneNode, and every edge of the input, unfiltered.
BuildDagreGraph(nodes, edges) ==
    [nodes |-> {n.id : n \in {m \in Range(nodes) : m.type # "swimLaneNode"}},
     edges |-> {<<e.source, e.target>> : e \in Range(edges)}]

\* The viewer's effect runs getLayoutedElements on the data it was given.
RenderViewer(nodes, edges, dx) ==
    /\ viewPc = "unmounted"
    /\ viewPc' = "rendered"
    /\ viewNodes' = nodes
    /\ viewEdges' = edges
    /\ dagreGraph' = BuildDagreGraph(nodes, edges)
    /\ dagreX' = dx
    /\ layouted' = getLayoutedElements(nodes, dx)
    /\ UNCHANGED <<nreq, now, result, xml, text, parsed, pc, req, events, execResult,
                   contexts, chatEngine, prev>>
    /\ UNCHANGED raceVars
    /\ UNCHANGED serverVars
    /\ UNCHANGED clientVars

-----------------------------------------------------------------------------
(* The explored inputs.                                                     *)

ParticipantIds == {"p1", "p2"}

ElementIds == {"a", "a-a"}

ParticipantSeqs(n) ==
    UNION {{[i \in 1..k |-> [id |-> f[i], name |-> "Lane " \o ToString(i)]] :
              f \in [1..k -> ParticipantIds]} : k \in 0..n}

ElementSeqs(ids, types, n) ==
    UNION {{[i \in 1..k |-> [id |-> f[i][1], type |-> f[i][2], participant |-> f[i][3],
                             name |-> "Step " \o ToString(i)]] :
              f \in [1..k -> ids \X types \X ParticipantIds]} : k \in 0..n}

FlowSeqs(ids, n) ==
    UNION {{[i \in 1..k |-> [id |-> "flow_" \o ToString(i), sourceRef |-> f[i][1],
                             targetRef |-> f[i][2], name |-> "cond " \o ToString(i)]] :
              f \in [1..k -> ids \X ids]} : k \in 0..n}

Payload(parts, els, flows, complexity, missing) ==
    [participants |-> parts, elements |-> els, sequenceFlows |-> flows,
     metadata |-> [processName |-> "Proc", complexity |-> complexity],
     missing |-> missing]

Obj(data) == [k |-> "obj", data |-> data]

Seg(k) == [k |-> k]

\* Normalisation, the elements: duplicate ids, unknown and repeated
\* participants, every order of tasks and end events, at most one flow.
NormElementResponses ==
    {<<Obj(Payload(p, e, f, "low", {}))>> :
        p \in ParticipantSeqs(MaxParticipants),
        e \in ElementSeqs(ElementIds, {"bpmn:Task", "bpmn:EndEvent"}, MaxElements),
        f \in FlowSeqs(ElementIds, 1)}

\* Normalisation, the flows: duplicate, dangling and End-sourced flows over
\* elements of one participant, which the payload holds or not.
NormFlowResponses ==
    {<<Obj(Payload(<<[id |-> pid, name |-> "Lane 1"]>>, e, f, "low", {}))>> :
        pid \in ParticipantIds,
        e \in {es \in ElementSeqs(ElementIds, {"bpmn:Task", "bpmn:EndEvent"}, MaxElements) :
                  \A i \in DOMAIN es : es[i].participant = "p1"},
        f \in FlowSeqs(ElementIds, MaxFlows)}

NormResponses == NormElementResponses \cup NormFlowResponses

\* Cycles: flows in any direction between start events and tasks of one
\* participant.
CycleResponses ==
    {<<Obj(Payload(<<[id |-> "p1", name |-> "Lane 1"]>>, e, f, "low", {}))>> :
        e \in {es \in ElementSeqs({"a", "b"}, {"bpmn:StartEvent", "bpmn:Task"}, MaxElements) :
                  \A i \in DOMAIN es : es[i].participant = "p1"},
        f \in FlowSeqs({"a", "b"}, MaxFlows)}

\* Payloads to normalise twice: duplicate ids, unknown and repeated
\* participants, dangling and End-sourced flows.
AgainResponses ==
    {<<Obj(Payload(p, e, f, "low", {}))>> :
        p \in {q \in ParticipantSeqs(2) : q # <<>>},
        e \in ElementSeqs({"a", "b"}, {"bpmn:Task", "bpmn:EndEvent"}, MaxElements),
        f \in FlowSeqs({"a", "b"}, 1)}

\* The participants, elements and flows of a diagram, as a payload.
AsPayload(d) ==
    Payload([i \in DOMAIN d.participants |->
                [id |-> d.participants[i].id, name |-> d.participants[i].name]],
            [i \in DOMAIN d.processes[1].elements |->
                [id |-> d.processes[1].elements[i].id,
                 type |-> d.processes[1].elements[i].type,
                 participant |-> d.processes[1].elements[i].participant,
                 name |-> d.processes[1].elements[i].name]],
            [i \in DOMAIN d.processes[1].sequenceFlows |->
                [id |-> d.processes[1].sequenceFlows[i].id,
                 sourceRef |-> d.processes[1].sequenceFlows[i].sourceRef,
                 targetRef |-> d.processes[1].sequenceFlows[i].targetRef,
                 name |-> d.processes[1].sequenceFlows[i].name]],
            d.metadata.complexity, {})

\* Elements of every kind, with and without a bounds field of their own.
SizedElementChoices ==
    {[id |-> i, type |-> t, participant |-> "p1", name |-> "Step"] :
        i \in {"a", "b"},
        t \in {"bpmn:StartEvent", "bpmn:Task", "bpmn:ExclusiveGateway", "bpmn:EndEvent"}}
    \cup
    {[id |-> i, type |-> t, participant |-> "p1", name |-> "Step",
      bounds |-> [x |-> 7, y |-> 7, width |-> 999, height |-> 999]] :
        i \in {"a", "b"},
        t \in {"bpmn:StartEvent", "bpmn:Task", "bpmn:ExclusiveGateway", "bpmn:EndEvent"}}

SizeResponses ==
    {<<Obj(Payload(<<[id |-> "p1", name |-> "Lane 1"]>>, e, <<>>, "low", {}))>> :
        e \in SeqsUpTo(SizedElementChoices, MaxElements)}

\* The whole handler: responses without a payload, with a malformed one,
\* with missing fields, with values outside the enumerations, and good ones.
PipelinePayloads ==
    {Payload(p, e, f, "low", {}) :
        p \in ParticipantSeqs(MaxParticipants),
        e \in ElementSeqs({"a"}, {"bpmn:StartEvent", "bpmn:ExclusiveGateway", "bpmn:Bogus"},
                          MaxElements),
        f \in FlowSeqs({"a"}, 1)}

SmallPayload ==
    Payload(<<[id |-> "p1", name |-> "Lane 1"]>>,
            <<[id |-> "a", type |-> "bpmn:Task", participant |-> "p1", name |-> "Step 1"]>>,
            <<>>, "low", {})

BrokenPayloads ==
    {[SmallPayload EXCEPT !.missing = m] :
        m \in {{"metadata"}, {"elements"}, {"participants", "sequenceFlows"}}}
    \cup {[SmallPayload EXCEPT !.metadata.complexity = "extreme"]}

PipelineResponses ==
    {<<Obj(d)>> : d \in PipelinePayloads \cup BrokenPayloads}
    \cup {<<>>, <<Seg("t")>>, <<Seg("}"), Seg("{")>>, <<Seg("{"), Seg("}")>>,
          <<Seg("{"), Seg("t"), Seg("}")>>,
          <<Seg("t"), Obj(SmallPayload), Seg("t")>>,
          <<Obj(SmallPayload), Seg("t"), Seg("}")>>}

\* One text of every outcome: no payload, a malformed one, missing fields, a
\* value outside an enumeration, an element of an unknown kind, a good one.
ProtocolResponses ==
    {<<Obj(d)>> : d \in {SmallPayload} \cup BrokenPayloads
                          \cup {[SmallPayload EXCEPT !.elements[1].type = "bpmn:Bogus"]}}
    \cup {<<>>, <<Seg("t")>>, <<Seg("}"), Seg("{")>>, <<Seg("{"), Seg("}")>>,
          <<Seg("{"), Seg("t"), Seg("}")>>,
          <<Seg("t"), Obj(SmallPayload), Seg("t")>>,
          <<Obj(SmallPayload), Seg("t"), Seg("}")>>}

\* Texts for the payload extractor.
ExtractResponses ==
    SeqsUpTo({Seg("{"), Seg("}"), Seg("t"), Obj(SmallPayload)}, MaxText)

\* The same payload in two requests.
TwiceResponses ==
    {<<Obj(Payload(p, e, f, "low", {}))>> :
        p \in ParticipantSeqs(MaxParticipants),
        e \in ElementSeqs({"a"}, {"bpmn:StartEvent", "bpmn:Task"}, 1),
        f \in FlowSeqs({"a"}, 1)}

\* Diagrams for the lane widths.
LaneResponses ==
    {<<Obj(Payload(p, e, <<>>, "low", {}))>> :
        p \in ParticipantSeqs(MaxParticipants),
        e \in ElementSeqs({"a"}, {"bpmn:Task"}, 1)}

ViewNodeChoices ==
    {[id |-> "lane1", type |-> "swimLaneNode", parentId |-> Undefined, style |-> [width |-> 720]],
     [id |-> "lane2", type |-> "swimLaneNode", parentId |-> Undefined, style |-> [width |-> 500]],
     [id |-> "n1", type |-> "processNode", parentId |-> "lane1", style |-> [width |-> 0]],
     [id |-> "n2", type |-> "decisionNode", parentId |-> Undefined, style |-> [width |-> 0]]}

DagreXChoices == {45, 325}

ViewInputs == SeqsUpTo(ViewNodeChoices, MaxViewNodes)

\* The viewer alone: a lane, two of its members, a node without a lane, and
\* edges between any of them.  dagre centres a lone startNode of rank 0 at
\* x = 25 and a processNode of the next rank at x = 50 + 50 + 45 = 145.
GraphNodeChoices ==
    {[id |-> "lane1", type |-> "swimLaneNode", parentId |-> Undefined, style |-> [width |-> 720]],
     [id |-> "n1", type |-> "startNode", parentId |-> "lane1", style |-> [width |-> 0]],
     [id |-> "n2", type |-> "processNode", parentId |-> "lane1", style |-> [width |-> 0]],
     [id |-> "n3", type |-> "decisionNode", parentId |-> Undefined, style |-> [width |-> 0]]}

GraphEdgeChoices ==
    {[source |-> a, target |-> b] : a \in {"lane1", "n1", "n2"}, b \in {"lane1", "n1", "n2"}}

GraphDagreXChoices == {25, 145}

GraphNodeInputs == SeqsUpTo(GraphNodeChoices, MaxViewNodes)

GraphEdgeInputs == SeqsUpTo(GraphEdgeChoices, MaxViewEdges)

FlowNodeIds(nodes) == {n.id : n \in {m \in Range(nodes) : m.type # "swimLaneNode"}}

-----------------------------------------------------------------------------
(* Specifications.                                                          *)

\* The whole handler, both entry points, requests one after another.
Next ==
    \/ \E api \in {"processMessage", "execute"}, s \in SessionIds : Begin(api, s, FALSE)
    \/ EngineReady
    \/ ChatThrows
    \/ (pc = "chat" /\ \E t \in PipelineResponses : ChatReturns(t))

Spec == Init /\ [][Next]_vars

\* One request through processMessage, over the normalisation inputs.
NextNorm ==
    \/ (nreq = 0 /\ Begin("processMessage", "s1", FALSE))
    \/ EngineReady
    \/ (pc = "chat" /\ \E t \in NormResponses : ChatReturns(t))

SpecNorm == Init /\ [][NextNorm]_vars

\* One request, over the texts for the payload extractor.
NextExtract ==
    \/ \E api \in {"processMessage", "execute"} : (nreq = 0 /\ Begin(api, "s1", FALSE))
    \/ EngineReady
    \/ (pc = "chat" /\ \E t \in ExtractResponses : ChatReturns(t))

SpecExtract == Init /\ [][NextExtract]_vars

\* The same response twice, at different times and for any sessions.
NextTwice ==
    \/ \E s \in SessionIds : Begin("processMessage", s, TRUE)
    \/ EngineReady
    \/ (pc = "chat" /\ \E t \in TwiceResponses :
                            (prev # None => t = prev.text) /\ ChatReturns(t))
    \/ Tick

SpecTwice == Init /\ [][NextTwice]_vars

\* The backend's lanes and the viewer's lanes.
NextLanes ==
    \/ (nreq = 0 /\ Begin("processMessage", "s1", FALSE))
    \/ EngineReady
    \/ (pc = "chat" /\ \E t \in LaneResponses : ChatReturns(t))
    \/ (viewPc = "unmounted" /\ \E nodes \in ViewInputs :
            \E dx \in [FlowNodeIds(nodes) -> DagreXChoices] :
                RenderViewer(nodes, <<>>, dx))

SpecLanes == Init /\ [][NextLanes]_vars

\* One request through processMessage, over the payloads with cycles.
NextCycle ==
    \/ (nreq = 0 /\ Begin("processMessage", "s1", FALSE))
    \/ EngineReady
    \/ (pc = "chat" /\ \E t \in CycleResponses : ChatReturns(t))

SpecCycle == Init /\ [][NextCycle]_vars

\* A payload is normalised, and the diagram it gave is normalised again.
NextAgain ==
    \/ Begin("processMessage", "s1", TRUE)
    \/ EngineReady
    \/ (pc = "chat" /\ nreq = 1 /\ \E t \in AgainResponses : ChatReturns(t))
    \/ (pc = "chat" /\ nreq > 1 /\ prev # None /\ prev.result # None /\ prev.result.ok
           /\ ChatReturns(<<Obj(AsPayload(prev.result.data))>>))

SpecAgain == Init /\ [][NextAgain]_vars

\* Requests of different sessions in flight together.
NextRace ==
    \/ \E s \in SessionIds : RaceBegin(s)
    \/ \E s \in SessionIds : RaceEngineReady(s)
    \/ \E s \in SessionIds : RaceChatReturns(s)
    \/ \E s \in SessionIds : RaceChatThrows(s)

SpecRace == Init /\ [][NextRace]_vars

\* One request through processMessage, over elements with sizes of their own.
NextSize ==
    \/ (nreq = 0 /\ Begin("processMessage", "s1", FALSE))
    \/ EngineReady
    \/ (pc = "chat" /\ \E t \in SizeResponses : ChatReturns(t))

SpecSize == Init /\ [][NextSize]_vars

\* One request through either entry point, over the pipeline's responses.
NextOnce ==
    \/ (nreq = 0 /\ \E api \in {"processMessage", "execute"} : Begin(api, "s1", FALSE))
    \/ EngineReady
    \/ ChatThrows
    \/ (pc = "chat" /\ \E t \in PipelineResponses : ChatReturns(t))

SpecOnce == Init /\ [][NextOnce]_vars

\* processMessage calls one after another, for either session, over one
\* response of every outcome.
NextProtocol ==
    \/ \E s \in SessionIds : Begin("processMessage", s, FALSE)
    \/ EngineReady
    \/ ChatThrows
    \/ (pc = "chat" /\ \E t \in ProtocolResponses : ChatReturns(t))

SpecProtocol == Init /\ [][NextProtocol]_vars

\* The socket routes: calls of two sockets in flight at once.  A client
\* names its session itself: by the socket's id or by an id of its own.
NextServer ==
    \/ \E k \in SocketIds, s \in {"s1"} \cup SocketIds :
          (s \in {k, "s1"}) /\ SrvProcessExtract(k, s)
    \/ \E c \in 1..MaxCalls : SrvEngineReady(c)
    \/ \E c \in 1..MaxCalls, o \in {"complete", "invalid", "throws"} : SrvChatSettles(c, o)
    \/ \E k \in SocketIds : SrvClearContext(k)
    \/ \E k \in SocketIds : SrvDisconnect(k)

SpecServer == Init /\ [][NextServer]_vars

\* The ProcessExtractor component against the server.  Timers fire, emitted
\* events arrive and the chat settles: each step is taken once it can be.
NextClient ==
    \/ ConnectTimerFires
    \/ startExtraction
    \/ ServerTakesRequest
    \/ \E o \in {"complete", "invalid", "throws"} : ServerAnswers(o)
    \/ ClientReceives
    \/ IdleTimerFires

SpecClient ==
    /\ Init
    /\ [][NextClient]_vars
    /\ WF_vars(ConnectTimerFires)
    /\ WF_vars(ServerTakesRequest)
    /\ WF_vars(\E o \in {"complete", "invalid", "throws"} : ServerAnswers(o))
    /\ WF_vars(ClientReceives)
    /\ WF_vars(IdleTimerFires)

\* The viewer alone, over node lists with edges.
NextView ==
    viewPc = "unmounted"
    /\ \E nodes \in GraphNodeInputs, edges \in GraphEdgeInputs :
          \E dx \in [FlowNodeIds(nodes) -> GraphDagreXChoices] :
              RenderViewer(nodes, edges, dx)

SpecView == Init /\ [][NextView]_vars

-----------------------------------------------------------------------------
(* Properties.                                                              *)

\* The request is over and convertToBPMNFormat returned a diagram.
Converted == pc = "done" /\ result # None /\ result.ok

RawData == parsed.data

OutElements == result.data.processes[1].elements

OutFlows == result.data.processes[1].sequenceFlows

OutParticipants == result.data.participants

OutLanes == result.data.lanes

\* C1: in every diagram convertToBPMNFormat returns, the sourceRef and the
\* targetRef of each sequence flow are ids of elements of the diagram, and no
\* sequence flow has an EndEvent element as its source.
C1_FlowsResolveAndEndEventsAreTerminal ==
    Converted =>
        \A f \in Range(OutFlows) :
            /\ \E e \in Range(OutElements) : e.id = f.sourceRef
            /\ \E e \in Range(OutElements) : e.id = f.targetRef
            /\ ~ \E e \in Range(OutElements) :
                    e.id = f.sourceRef /\ e.type = "bpmn:EndEvent"

\* A diagram that kept one flow while the input also held a flow out of an
\* EndEvent between two elements of the diagram.
C1_Witness ==
    /\ Converted
    /\ OutFlows # <<>>
    /\ \E f \in Range(RawData.sequenceFlows) :
          /\ \E e \in Range(OutElements) : e.id = f.sourceRef /\ e.type = "bpmn:EndEvent"
          /\ \E e \in Range(OutElements) : e.id = f.targetRef

OccurrencesOf(x) == {i \in DOMAIN RawData.elements : RawData.elements[i].id = x}

OutputsOf(x) == {k \in DOMAIN OutElements : OutElements[k].id = x}

CarriesFieldsOf(out, el) ==
    out.name = el.name /\ out.type = el.type /\ out.participant = el.participant

\* C2 as claimed: an element id that occurs two or more times in the input
\* occurs exactly once in the output, with the name, type and participant of
\* its first occurrence.
C2_Original ==
    Converted =>
        \A x \in ElementIds :
            Cardinality(OccurrencesOf(x)) >= 2 =>
                /\ Cardinality(OutputsOf(x)) = 1
                /\ \A k \in OutputsOf(x) :
                      CarriesFieldsOf(OutElements[k], RawData.elements[Min(OccurrencesOf(x))])

\* C2 as amended: an element id that occurs two or more times in the input
\* occurs at most once in the output; it occurs exactly once, with the name,
\* type and participant of its first occurrence, when the first occurrence
\* names a participant of the input, and not at all when the first
\* occurrence names an unknown participant.
C2_Amended ==
    Converted =>
        \A x \in ElementIds :
            Cardinality(OccurrencesOf(x)) >= 2 =>
                LET first == RawData.elements[Min(OccurrencesOf(x))]
                IN IF \E p \in Range(RawData.participants) : p.id = first.participant
                   THEN /\ Cardinality(OutputsOf(x)) = 1
                        /\ \A k \in OutputsOf(x) : CarriesFieldsOf(OutElements[k], first)
                   ELSE OutputsOf(x) = {}

\* An id given twice with different fields, the first occurrence in a known
\* participant, and the diagram holds it.
C2_Witness ==
    /\ Converted
    /\ \E x \in ElementIds :
          /\ Cardinality(OccurrencesOf(x)) >= 2
          /\ OutputsOf(x) # {}
          /\ \E i \in OccurrencesOf(x) :
                ~ CarriesFieldsOf(OutElements[Min(OutputsOf(x))], RawData.elements[i])

LanesHolding(id) == {i \in DOMAIN OutLanes : id \in Range(OutLanes[i].flowNodeRefs)}

\* C3: in every output diagram each element's participant is the id of a
\* participant of the diagram, and the element's id is in the flowNodeRefs of
\* exactly one lane, once, that lane being the element's lane and a lane of
\* its participant; the lanes hold nothing but output elements; and an input
\* element that names an unknown participant (and is not a dropped duplicate
\* of an earlier element) has its id in no output element and in no lane.
C3_ElementsInTheirParticipantsLane ==
    Converted =>
        /\ \A e \in Range(OutElements) :
              /\ \E p \in Range(OutParticipants) : p.id = e.participant
              /\ Cardinality(LanesHolding(e.id)) = 1
              /\ \A i \in LanesHolding(e.id) :
                    /\ OutLanes[i].participantRef = e.participant
                    /\ OutLanes[i].id = e.lane
                    /\ Cardinality({k \in DOMAIN OutLanes[i].flowNodeRefs :
                                      OutLanes[i].flowNodeRefs[k] = e.id}) = 1
        /\ \A i \in DOMAIN OutLanes :
              Range(OutLanes[i].flowNodeRefs) \subseteq {e.id : e \in Range(OutElements)}
        /\ \A i \in DOMAIN RawData.elements :
              LET el == RawData.elements[i]
              IN (/\ i = Min(OccurrencesOf(el.id))
                  /\ ~ \E p \in Range(RawData.participants) : p.id = el.participant)
                 => (OutputsOf(el.id) = {} /\ LanesHolding(el.id) = {})

\* A diagram with an element in a lane, from an input that also held an
\* element of an unknown participant.
C3_Witness ==
    /\ Converted
    /\ \E i \in DOMAIN OutLanes : OutLanes[i].flowNodeRefs # <<>>
    /\ \E el \in Range(RawData.elements) :
          ~ \E p \in Range(RawData.participants) : p.id = el.participant

FlowsOfPair(flows, src, tgt) ==
    {i \in DOMAIN flows : flows[i].sourceRef = src /\ flows[i].targetRef = tgt}

\* C6: when several input sequence flows have the same ordered pair
\* (sourceRef, targetRef), at most one flow with that pair is in the output,
\* and it has the id and the name of the first of them in input order.
C6_FirstFlowOfAPairIsKept ==
    Converted =>
        \A src \in ElementIds, tgt \in ElementIds :
            LET ins == FlowsOfPair(RawData.sequenceFlows, src, tgt)
                outs == FlowsOfPair(OutFlows, src, tgt)
            IN Cardinality(ins) >= 2 =>
                  /\ Cardinality(outs) <= 1
                  /\ \A k \in outs :
                        /\ OutFlows[k].id = RawData.sequenceFlows[Min(ins)].id
                        /\ OutFlows[k].name = RawData.sequenceFlows[Min(ins)].name

\* Two input flows with the same pair, and the diagram holds a flow of it.
C6_Witness ==
    /\ Converted
    /\ \E src \in ElementIds, tgt \in ElementIds :
          /\ Cardinality(FlowsOfPair(RawData.sequenceFlows, src, tgt)) >= 2
          /\ FlowsOfPair(OutFlows, src, tgt) # {}

ParticipantBoundsOf(e) ==
    OutParticipants[Min({i \in DOMAIN OutParticipants :
                            OutParticipants[i].id = e.participant})].bounds

Inside(b, outer) ==
    /\ outer.x <= b.x
    /\ outer.y <= b.y
    /\ b.x + b.width <= outer.x + outer.width
    /\ b.y + b.height <= outer.y + outer.height

\* C10 as claimed: in every diagram convertToBPMNFormat returns, the bounds
\* of each element lie inside the bounds of the element's participant.
C10_ElementsInsideTheirLane ==
    Converted =>
        \A e \in Range(OutElements) : Inside(e.bounds, ParticipantBoundsOf(e))

\* C4 as claimed: when no element survives the pruning, or the payload has
\* no participant, the request fails: convertToBPMNFormat returns no
\* diagram, no 'bpmn:extracted' event is emitted and execute() returns
\* isValid = false.
C4_EmptyDiagramIsAHardFailure ==
    (/\ pc = "done"
     /\ parsed # None
     /\ parsed.isValid
     /\ (KeptElements(RawData) = <<>> \/ RawData.participants = <<>>))
    => /\ ~ (result # None /\ result.ok)
       /\ \A i \in DOMAIN events : events[i].ev # "bpmn:extracted"
       /\ (req.api = "execute" => ~ execResult.isValid)

\* The response held a span the extractor matched and JSON.parse rejected.
MalformedPayload ==
    parsed # None /\ ~ parsed.isValid /\ parsed.errors[1] = "JSON parsing failed: Unexpected token"

\* The payload parsed and broke the schema: a required collection is
\* missing, or convertToBPMNFormat's schema check rejected the diagram.
SchemaViolation ==
    \/ (/\ parsed # None
        /\ ~ parsed.isValid
        /\ parsed.errors[1] = "Missing required fields: participants, elements, or sequenceFlows")
    \/ (result # None /\ ~ result.ok)

EndsWithValidationError ==
    /\ Len(events) >= 2
    /\ events[Len(events) - 1].ev = "bpmn:validation-error"
    /\ events[Len(events)] = StatusEvent("error")

\* C7 as claimed: in processMessage a malformed payload and a payload that
\* violates the schema both end with a 'bpmn:validation-error' event that
\* carries the errors, followed by agent:status 'error'.
C7_OneFailurePath ==
    (pc = "done" /\ req.api = "processMessage" /\ (MalformedPayload \/ SchemaViolation))
    => EndsWithValidationError

\* The brace depth after the segments i..j of a text that opens at i.
RECURSIVE DepthAfter(_, _, _)
DepthAfter(t, i, j) ==
    IF j < i THEN 0
    ELSE DepthAfter(t, i, j - 1)
         + (IF t[j].k = "{" THEN 1 ELSE IF t[j].k = "}" THEN -1 ELSE 0)

\* The end of the balanced span that starts at segment i, or 0.
BalancedEnd(t, i) ==
    IF t[i].k = "obj" THEN i
    ELSE IF t[i].k # "{" THEN 0
    ELSE LET ends == {j \in i..Len(t) :
                        /\ DepthAfter(t, i, j) = 0
                        /\ \A m \in i..(j - 1) : DepthAfter(t, i, m) > 0}
         IN IF ends = {} THEN 0 ELSE Min(ends)

\* The first balanced {...} span of a text, or NoMatch.
FirstBalancedSpan(t) ==
    LET starts == {i \in DOMAIN t : BalancedEnd(t, i) # 0}
    IN IF starts = {} THEN NoMatch
       ELSE SubSeq(t, Min(starts), BalancedEnd(t, Min(starts)))

\* C5 as claimed: the payload extractor selects the first balanced {...}
\* span of the response, whatever follows it, and the response is parsed
\* from that span; a response without such a span gets the no-payload error.
C5_FirstBalancedSpanIsSelected ==
    pc = "done" =>
        LET span == FirstBalancedSpan(text)
        IN IF span = NoMatch
           THEN /\ jsonMatch(text) = NoMatch
                /\ parsed = [isValid |-> FALSE,
                             errors |-> <<"No valid JSON found in response">>]
           ELSE /\ jsonMatch(text) = span
                /\ (JSONparse(span).ok =>
                       (parsed.isValid
                        \/ parsed.errors # <<"JSON parsing failed: Unexpected token">>))

Coordinates(d) ==
    [elements |-> [i \in DOMAIN d.processes[1].elements |-> d.processes[1].elements[i].bounds],
     lanes |-> [i \in DOMAIN d.lanes |-> d.lanes[i].bounds],
     participants |-> [i \in DOMAIN d.participants |-> d.participants[i].bounds]]

\* The request before this one got the same response and also returned a
\* diagram.
SameResponseTwice ==
    /\ Converted
    /\ prev # None
    /\ prev.text = text
    /\ prev.result # None
    /\ prev.result.ok

\* C8: two requests that get the same response produce the same XML document
\* and the same element, lane and participant bounds, whatever the clock
\* showed at each and whatever requests came before.
C8_SameInputSameOutput ==
    SameResponseTwice =>
        /\ xml = prev.xml
        /\ Coordinates(result.data) = Coordinates(prev.result.data)

\* The same response processed twice, at different times, with elements and
\* a flow in the diagram.
C8_Witness ==
    /\ SameResponseTwice
    /\ prev.at < now
    /\ result.data.metadata.createdAt # prev.result.data.metadata.createdAt
    /\ OutElements # <<>>
    /\ OutFlows # <<>>

LayoutedLanes == {n \in Range(layouted) : n.type = "swimLaneNode"}

\* C9: all lanes of a diagram have one width: the participant bounds and the
\* lane bounds convertToBPMNFormat returns share one width, and the
\* swimLaneNodes getLayoutedElements returns share one style.width.
C9_UniformLaneWidth ==
    /\ Converted =>
          \A a, b \in {p.bounds : p \in Range(OutParticipants)}
                      \cup {l.bounds : l \in Range(OutLanes)} : a.width = b.width
    /\ viewPc = "rendered" =>
          \A a, b \in LayoutedLanes : a.style.width = b.style.width

\* A diagram of two participants, and a view of two lanes that came with
\* different widths and a member node that widened them.
C9_Witness ==
    /\ Converted
    /\ Len(OutParticipants) >= 2
    /\ viewPc = "rendered"
    /\ \E a, b \in Range(viewNodes) :
          a.type = "swimLaneNode" /\ b.type = "swimLaneNode" /\ a.style.width # b.style.width
    /\ Cardinality(LayoutedLanes) >= 2
    /\ \A l \in LayoutedLanes : l.style.width > 0

\* C11: after getLayoutedElements, every node that has a parentId ends, at
\* position.x plus its width, within the width written into the lanes.
C11_LaneWidthCoversEveryMember ==
    viewPc = "rendered" =>
        \A l \in LayoutedLanes :
            \A n \in Range(layouted) :
                (n.type # "swimLaneNode" /\ n.parentId # Undefined)
                    => n.position.x + getNodeDimensions(n.type).width <= l.style.width

\* C17: the graph handed to dagre.layout has a node for exactly each node
\* of the input that is not a swimLaneNode, and each of its edges joins two
\* such nodes.
C17_LayoutGraphHoldsFlowNodesOnly ==
    viewPc = "rendered" =>
        /\ dagreGraph.nodes = FlowNodeIds(viewNodes)
        /\ \A e \in dagreGraph.edges :
              e[1] \in FlowNodeIds(viewNodes) /\ e[2] \in FlowNodeIds(viewNodes)

\* C12: the diagram has one lane per participant of the input, in the
\* input's order (lane i carries the id and the name of participant i,
\* whatever elements it holds), and consecutive lanes do not overlap: the
\* next lane starts at or below the bottom of the one before.
C12_LanesInDeclaredOrderStacked ==
    Converted =>
        /\ Len(OutLanes) = Len(RawData.participants)
        /\ Len(OutParticipants) = Len(RawData.participants)
        /\ \A i \in DOMAIN OutLanes :
              /\ OutLanes[i].participantRef = RawData.participants[i].id
              /\ OutLanes[i].name = RawData.participants[i].name
              /\ OutParticipants[i].id = RawData.participants[i].id
              /\ OutParticipants[i].bounds = OutLanes[i].bounds
        /\ \A i \in DOMAIN OutLanes :
              i + 1 \in DOMAIN OutLanes =>
                  OutLanes[i + 1].bounds.y >= OutLanes[i].bounds.y + OutLanes[i].bounds.height

\* Two lanes, the first empty and the second holding an element, from
\* participants given in the order p2, p1.
C12_Witness ==
    /\ Converted
    /\ Len(OutLanes) = 2
    /\ OutLanes[1].participantRef = "p2" /\ OutLanes[2].participantRef = "p1"
    /\ OutLanes[1].flowNodeRefs = <<>> /\ OutLanes[2].flowNodeRefs # <<>>
    /\ OutLanes[2].bounds.y > OutLanes[1].bounds.y

XmlEdgeElements == SubSeqAt(xml, {i \in DOMAIN xml : xml[i].tag = "bpmndi:BPMNEdge"})

\* p is the centre (x + width/2, y + height/2) of the bounds of the output
\* element with the given id.
IsCentreOf(p, id) ==
    \E e \in Range(OutElements) :
        /\ e.id = id
        /\ 2 * p.x = 2 * e.bounds.x + e.bounds.width
        /\ 2 * p.y = 2 * e.bounds.y + e.bounds.height

\* C13: the XML holds one BPMNEdge per sequence flow of the diagram, in the
\* flows' order, and each holds exactly two waypoints: the centre of the
\* bounds of the flow's source element, then that of its target element.
C13_OneEdgeWithTwoCentreWaypoints ==
    Converted =>
        /\ Len(XmlEdgeElements) = Len(OutFlows)
        /\ \A k \in DOMAIN OutFlows :
              /\ XmlEdgeElements[k].bpmnElement = OutFlows[k].id
              /\ Len(XmlEdgeElements[k].waypoints) = 2
              /\ IsCentreOf(XmlEdgeElements[k].waypoints[1], OutFlows[k].sourceRef)
              /\ IsCentreOf(XmlEdgeElements[k].waypoints[2], OutFlows[k].targetRef)

\* A document with the edge of a flow between two different elements.
C13_Witness ==
    /\ Converted
    /\ \E k \in DOMAIN OutFlows :
          /\ OutFlows[k].sourceRef # OutFlows[k].targetRef
          /\ XmlEdgeElements[k].waypoints[1] # XmlEdgeElements[k].waypoints[2]

XmlProcessBlocks == {i \in DOMAIN xml : xml[i].tag = "bpmn:process"}

\* C14: the XML holds one bpmn:process block per participant of the
\* collaboration block, each participant referring to a block of its own.
C14_OneProcessBlockPerParticipant ==
    Converted =>
        /\ Cardinality(XmlProcessBlocks) = Len(OutParticipants)
        /\ \A i \in DOMAIN OutParticipants, j \in DOMAIN OutParticipants :
              i # j => OutParticipants[i].processRef # OutParticipants[j].processRef

FlowSucc(id) == {f.targetRef : f \in {g \in Range(OutFlows) : g.sourceRef = id}}

\* The ids reached from the ids S along at most n further output flows.
RECURSIVE ReachFrom(_, _)
ReachFrom(S, n) ==
    IF n = 0 THEN S ELSE ReachFrom(S \cup UNION {FlowSucc(x) : x \in S}, n - 1)

ReachedFrom(id) == ReachFrom(FlowSucc(id), Len(OutElements))

\* a and b lie on one cycle of the output flows.
OnOneCycle(a, b) == b \in ReachedFrom(a) /\ a \in ReachedFrom(b)

Overlap(a, b) ==
    /\ a.x < b.x + b.width /\ b.x < a.x + a.width
    /\ a.y < b.y + b.height /\ b.y < a.y + a.height

\* C15: for a payload whose surviving flows hold a cycle, the conversion
\* ends without an error and no two elements of the cycle have overlapping
\* bounds.
C15_CycleElementsDoNotOverlap ==
    (pc = "done" /\ parsed.isValid) =>
        /\ result.ok
        /\ \A i \in DOMAIN OutElements, j \in DOMAIN OutElements :
              (i # j /\ OnOneCycle(OutElements[i].id, OutElements[j].id))
                  => ~ Overlap(OutElements[i].bounds, OutElements[j].bounds)

ElementX(id) == OutElements[Min({k \in DOMAIN OutElements : OutElements[k].id = id})].bounds.x

\* No output flow is a back edge: the output flows hold no cycle.
FlowsAcyclic == \A e \in Range(OutElements) : e.id \notin ReachedFrom(e.id)

\* C16: when every output flow is a forward edge, the target of each flow is
\* placed in a later column (a larger x) than its source.
C16_ForwardFlowsGoRight ==
    (Converted /\ FlowsAcyclic) =>
        \A f \in Range(OutFlows) : ElementX(f.targetRef) > ElementX(f.sourceRef)

\* The request normalised the diagram the request before it returned.
NormalisedAgain == Converted /\ nreq > 1 /\ prev # None /\ prev.result.ok

\* C18: normalising the participants, elements and flows of a normalised
\* diagram drops nothing: the elements (with their coordinates), the flows,
\* the lanes (with their flowNodeRefs) and the participants are the same.
C18_NormalisationIsIdempotent ==
    NormalisedAgain =>
        /\ OutElements = prev.result.data.processes[1].elements
        /\ OutFlows = prev.result.data.processes[1].sequenceFlows
        /\ OutLanes = prev.result.data.lanes
        /\ OutParticipants = prev.result.data.participants

\* The second normalisation of a diagram that holds an element and a flow,
\* the first normalisation having dropped an element and a flow.
C18_Witness ==
    /\ NormalisedAgain
    /\ nreq = 2
    /\ OutElements # <<>>
    /\ Len(prev.text[1].data.elements) > Len(OutElements)
    /\ Len(prev.text[1].data.sequenceFlows) > Len(prev.result.data.processes[1].sequenceFlows)

\* C19: whatever the interleaving of the sessions' requests, the chat engine
\* a request uses is the one initialised for the request's own session, and
\* the engine is initialised at most once.
C19_OwnEngineInitialisedOnce ==
    /\ \A s \in SessionIds : handlers[s].pc \in {"chat", "done"} => handlers[s].engine = s
    /\ engineInits <= 1

\* No two entries of the sequence carry the same id.
DistinctIds(items) ==
    \A i \in DOMAIN items, j \in DOMAIN items : i # j => items[i].id # items[j].id

\* C20: in every output diagram the ids are pairwise distinct: among the
\* elements, among the participants, among the lanes, and between an
\* element and a participant or a lane.
C20_IdsPairwiseDistinct ==
    Converted =>
        /\ DistinctIds(OutElements)
        /\ DistinctIds(OutParticipants)
        /\ DistinctIds(OutLanes)
        /\ \A e \in Range(OutElements) :
              /\ \A q \in Range(OutParticipants) : e.id # q.id
              /\ \A l \in Range(OutLanes) : e.id # l.id

\* The response is the text of one JSON object.
OneObjectResponse == Len(text) = 1 /\ text[1].k = "obj"

\* C21: when the payload lacks two or more of its required top-level
\* fields, the validator's result is invalid and holds one error message
\* per missing field.
C21_OneMessagePerViolation ==
    (pc = "done" /\ OneObjectResponse /\ Cardinality(text[1].data.missing) >= 2) =>
        /\ ~ parsed.isValid
        /\ Len(parsed.errors) = Cardinality(text[1].data.missing)

\* The names an error string may start with, and the texts that may follow.
ErrorStages ==
    {"No valid JSON found in response", "No valid JSON found", "JSON parsing failed",
     "Missing required fields", "Execution error", "BPMN schema validation failed"}

ErrorMessages ==
    {"No valid JSON found in response", "in response", "Unexpected token",
     "participants, elements, or sequenceFlows", "chat failed", "invalid",
     "BPMN schema validation failed: invalid",
     "Cannot read properties of undefined (reading 'processName')"}

\* The string is a stage name, then a colon and a space, then a message.
HasStageForm(str) == \E st \in ErrorStages, m \in ErrorMessages : str = st \o ": " \o m

\* C22: every error string of a failed request, in the validator's errors
\* and in execute()'s validationErrors, has the form "<stage>: <message>".
C22_ErrorsNameTheirStage ==
    pc = "done" =>
        /\ (parsed # None /\ ~ parsed.isValid) =>
               \A i \in DOMAIN parsed.errors : HasStageForm(parsed.errors[i])
        /\ (execResult # None /\ ~ execResult.isValid) =>
               \A i \in DOMAIN execResult.validationErrors :
                   HasStageForm(execResult.validationErrors[i])

Emitted(ev) == \E i \in DOMAIN events : events[i].ev = ev

\* The payload's elements whose type is not an allowed kind and whose
\* participant is a participant of the payload.
UnknownKindIdx ==
    {i \in DOMAIN RawData.elements :
        /\ RawData.elements[i].type \notin BPMNElementTypes
        /\ \E q \in Range(RawData.participants) : q.id = RawData.elements[i].participant}

\* The request is over and its payload passed parseAndValidateBPMNResponse.
PayloadParsed == pc = "done" /\ parsed # None /\ parsed.isValid /\ result # None

RequestFailed ==
    /\ ~ result.ok
    /\ ~ Emitted("bpmn:extracted")
    /\ xml = <<>>
    /\ req.api = "execute" => ~ execResult.isValid

TableSize(type) ==
    CASE type \in {"bpmn:StartEvent", "bpmn:EndEvent"} -> [width |-> 36, height |-> 36]
      [] type \in {"bpmn:Task", "bpmn:UserTask", "bpmn:ServiceTask"} -> [width |-> 100, height |-> 80]
      [] type \in {"bpmn:ExclusiveGateway", "bpmn:ParallelGateway"} -> [width |-> 50, height |-> 50]

\* C24: the width and the height of every output element are those the
\* table gives its type, so two elements of one type have one size, whatever
\* bounds the payload supplied for them.
C24_SizeFromTypeAlone ==
    Converted =>
        /\ \A e \in Range(OutElements) :
              /\ e.bounds.width = TableSize(e.type).width
              /\ e.bounds.height = TableSize(e.type).height
        /\ \A e \in Range(OutElements), f \in Range(OutElements) :
              e.type = f.type =>
                  (e.bounds.width = f.bounds.width /\ e.bounds.height = f.bounds.height)

\* A diagram with two elements of one type, only one of which came with
\* bounds of its own.
C24_Witness ==
    /\ Converted
    /\ Len(OutElements) = 2
    /\ OutElements[1].type = OutElements[2].type
    /\ "bounds" \in DOMAIN RawData.elements[1]
    /\ "bounds" \notin DOMAIN RawData.elements[2]

\* The participant an output element was placed in.
ParticipantOf(e) == CHOOSE q \in Range(OutParticipants) : q.id = e.participant

\* C25: every flow node is vertically centred in its lane: twice its y plus
\* its height is twice the lane's y plus the lane's height, for start events,
\* tasks, gateways and end events alike.
C25_NodesVerticallyCentred ==
    Converted =>
        \A e \in Range(OutElements) :
            2 * e.bounds.y + e.bounds.height
                = 2 * ParticipantOf(e).bounds.y + ParticipantOf(e).bounds.height

\* The place of a status in the protocol; "complete" and "error" share the last.
StatusRank(status) ==
    CASE status = "thinking" -> 1
      [] status = "extracting" -> 2
      [] status = "validating" -> 3
      [] status \in {"complete", "error"} -> 4

OutcomeEvents == {"bpmn:extracted", "bpmn:validation-error", "agent:error"}

ErrorEvents == {"bpmn:validation-error", "agent:error"}

StatusIdx == {i \in DOMAIN events : events[i].ev = "agent:status"}

OutcomeIdx == {i \in DOMAIN events : events[i].ev \in OutcomeEvents}

StatusAt(status) == {i \in StatusIdx : events[i].status = status}

\* C26: within one processMessage call the statuses come in the order
\* thinking, extracting, validating, then complete or error, each at most
\* once; a finished call has emitted exactly one outcome event, an unfinished
\* one none or one; the extracted event comes after "validating" and before
\* "complete"; "complete" is never emitted beside an error event.
C26_EventProtocol ==
    (req # None /\ req.api = "processMessage") =>
        /\ \A i \in StatusIdx, j \in StatusIdx :
              i < j => StatusRank(events[i].status) < StatusRank(events[j].status)
        /\ Cardinality(OutcomeIdx) <= 1
        /\ pc = "done" => Cardinality(OutcomeIdx) = 1
        /\ \A i \in DOMAIN events :
              events[i].ev = "bpmn:extracted" =>
                  /\ \E j \in StatusAt("validating") : j < i
                  /\ \A j \in StatusAt("complete") : i < j
        /\ StatusAt("complete") # {} =>
              \A i \in DOMAIN events : events[i].ev \notin ErrorEvents

\* A call that ended with the validation-error event and the status "error"
\* after the three statuses before it.
C26_Witness ==
    /\ pc = "done"
    /\ req.api = "processMessage"
    /\ Emitted("bpmn:validation-error")
    /\ StatusAt("thinking") # {}
    /\ StatusAt("extracting") # {}
    /\ StatusAt("validating") # {}
    /\ StatusAt("error") # {}

\* C27: the de-duplication of flows drops a flow only for an earlier flow
\* with the same sourceRef and the same targetRef: every ordered pair of the
\* payload's flows is still there after it, also when ids contain "-".
C27_DistinctPairsAreKept ==
    PayloadParsed =>
        \A i \in DOMAIN RawData.sequenceFlows :
            \E k \in UniqueFlowIdx(RawData.sequenceFlows) :
                /\ RawData.sequenceFlows[k].sourceRef = RawData.sequenceFlows[i].sourceRef
                /\ RawData.sequenceFlows[k].targetRef = RawData.sequenceFlows[i].targetRef

\* The messages of the context the agent holds under key s.
HeldMessages(s) == contextObjects[agentContexts[s]].messages

\* C28: whatever the interleaving of calls and clearContext, the messages
\* of every context the agent holds are (user, assistant) pairs, the two of
\* a pair next to each other and of one call, a call of that context's own
\* session; and no context object, held or dropped, has a message of a call
\* that failed validation or threw.
C28_ContextsHoldWholeExchanges ==
    /\ \A s \in DOMAIN agentContexts :
          LET m == HeldMessages(s)
          IN /\ Len(m) % 2 = 0
             /\ \A i \in DOMAIN m :
                   /\ m[i].role = (IF i % 2 = 1 THEN "user" ELSE "assistant")
                   /\ (i % 2 = 1) => m[i + 1].call = m[i].call
                   /\ calls[m[i].call].sessionId = s
    /\ \A o \in DOMAIN contextObjects :
          \A i \in DOMAIN contextObjects[o].messages :
              calls[contextObjects[o].messages[i].call].outcome = "complete"

\* Two calls of one session were in flight together, the context was
\* cleared between their starts, one call failed and the other stored its
\* exchange in the context the agent holds now.
C28_Witness ==
    /\ Len(calls) = 2
    /\ calls[1].sessionId = calls[2].sessionId
    /\ calls[1].context # calls[2].context
    /\ calls[1].pc = "done" /\ calls[1].outcome = "invalid"
    /\ calls[2].pc = "done" /\ calls[2].outcome = "complete"
    /\ calls[2].sessionId \in DOMAIN agentContexts
    /\ Len(HeldMessages(calls[2].sessionId)) = 2

\* The calls of socket k that have not run to their end.
InFlight(k) == {c \in DOMAIN calls : calls[c].socket = k /\ calls[c].pc # "done"}

\* C29: once a socket's disconnect handler has run and none of its requests
\* is in flight, the agent holds no context under any sessionId the socket
\* sent in its requests.
C29_NoContextAfterDisconnect ==
    \A k \in SocketIds :
        (sockets[k] = "disconnected" /\ InFlight(k) = {}) =>
            \A c \in DOMAIN calls :
                calls[c].socket = k => calls[c].sessionId \notin DOMAIN agentContexts

\* C30: whenever the component has left the idle status for a request, it
\* is idle again later, whichever outcome the server sends.
C30_ReturnsToIdle ==
    (extractionState \in {"thinking", "extracting", "validating", "complete", "error"})
        ~> (extractionState = "idle")

====
